---- MODULE Spec2Model ----
(***************************************************************************)
(* Request/response correlation between the terminal chat client           *)
(* (src/chat-client.ts) and the Notion MCP server it spawns                *)
(* (src/mcp-server.ts), over the child's line-delimited stdio pipes.       *)
(*                                                                         *)
(* The byte streams are sequences of tokens.  A response record            *)
(*   {"id":7,"result":...}\n                                               *)
(* is the token sequence  open(7)  rest(...)  nl , where open(7) stands    *)
(* for the bytes {"id":7 and rest(...) for the bytes up to and including   *)
(* the closing brace; a proper prefix or suffix of a record is, like a     *)
(* fragment of a JSON object, not parseable.  Time is abstracted: an armed *)
(* timer may fire at any moment.                                           *)
(*                                                                         *)
(* Spec is the client as wired: the chat loop and processUserMessage await *)
(* every tool call before the next.  SpecConcurrent drives the RPC layer   *)
(* with any number of calls in flight once the handshake has resolved:     *)
(* callMCPTool is an async method and the layer itself puts no limit on    *)
(* the calls in flight.  SpecServer is the server under any peer.          *)
(***************************************************************************)
EXTENDS Integers, Sequences, FiniteSets, TLC

\* ---------------------------------------------------------------- bounds
MaxId == 3          \* requests one client issues (initialize included)
MaxNoise == 1       \* stdout lines of the child that answer no request
MaxWire == 6        \* undelivered tokens the stdout pipe holds
MaxReq == 2         \* requests a peer sends to the server on its own
MaxErr == 1         \* stderr chunks of the child the client handles
MaxItems == 2       \* items of a title / rich_text array of the provider
MaxTools == 2       \* tool calls the model proposes in one answer

Ids == 1..MaxId

\* ------------------------------------------------------------- constants
DefaultLimit == 10        \* search_notion / list_recent_pages / get_page_titles_only
DefaultLimitAll == 20     \* list_all_pages
MaxPageSize == 100        \* Math.min(limit, 100)
PreviewPageSize == 3      \* getPagePreview: page_size: 3

\* ----------------------------------------------------------- wire values
\* MCPResponse: result?: any, error?: {code, message}; one shape for both.
NoBody == [kind |-> "none", isError |-> FALSE, text |-> "", code |-> 0]
ResultBody(text, isErr) == [kind |-> "result", isError |-> isErr, text |-> text, code |-> 0]
ErrorBody(code, msg) == [kind |-> "error", isError |-> FALSE, text |-> msg, code |-> code]
TimeoutError == [kind |-> "timeout", isError |-> FALSE, text |-> "MCP response timeout", code |-> 0]

Tok(t) == [t |-> t, id |-> 0, body |-> NoBody]
NL == Tok("nl")
JUNK == Tok("junk")
OpenTok(i) == [t |-> "open", id |-> i, body |-> NoBody]
RestTok(b) == [t |-> "rest", id |-> 0, body |-> b]

\* JSON.stringify(response) + '\n' as the transport writes it; a body of
\* kind "none" gives a record with neither result nor error.
ResponseLine(id, body) == <<OpenTok(id), RestTok(body), NL>>

\* JSON.parse(line) followed by the reads of response.id / .error / .result.
\* ok = FALSE: JSON.parse threw.
JSONparse(line) ==
    IF Len(line) = 2 /\ line[1].t = "open" /\ line[2].t = "rest"
    THEN [ok |-> TRUE, id |-> line[1].id, body |-> line[2].body]
    ELSE [ok |-> FALSE, id |-> 0, body |-> NoBody]

\* data.toString().split('\n'): the pieces between line breaks, the last
\* piece (possibly empty) included.
RECURSIVE SplitNL(_, _)
SplitNL(s, cur) ==
    IF s = <<>> THEN <<cur>>
    ELSE IF Head(s) = NL THEN <<cur>> \o SplitNL(Tail(s), <<>>)
    ELSE SplitNL(Tail(s), Append(cur, Head(s)))

\* .filter(line => line.trim())
NonBlank(lines) == SelectSeq(lines, LAMBDA l : l # <<>>)

\* ------------------------------------------------------------ the server
\* tools: [...] of the ListTools handler, in listing order
RegisteredTools ==
    <<"search_notion", "list_recent_pages", "get_page_titles_only",
      "get_page_content", "list_all_pages">>

Range(f) == {f[x] : x \in DOMAIN f}
Min(a, b) == IF a <= b THEN a ELSE b

\* request.params.arguments: absent (undefined) or an object; limit = 0
\* stands for an object without a limit property, sort = "" for one without
\* a sort property.
NoArgs == [present |-> FALSE, limit |-> 0, sort |-> ""]
Args(limit) == [present |-> TRUE, limit |-> limit, sort |-> ""]
ArgsSort(limit, sort) == [present |-> TRUE, limit |-> limit, sort |-> sort]

\* (args.limit as number) || dflt
LimitOr_Ten(limit, dflt) == IF limit = 0 THEN 10 ELSE limit
LimitOr(limit, dflt) == IF limit = 0 THEN dflt ELSE limit

\* (args.sort as string) || "last_edited_time"
SortOr(sort) == IF sort = "" THEN "last_edited_time" ELSE sort

\* prov is the provider's outcome during one tool call: "ok" (every request
\* succeeds), "fail" (the first request fails), "blocksFail" (notion.search
\* succeeds, blocks.children.list fails).  reqs are the provider requests
\* the method issues, in order, each with its page size and its success.
ProviderRequest(size, ok) == [pageSize |-> size, ok |-> ok]

\* listRecentPages, getPageTitlesOnly, listAllPages: one provider search with
\* page_size: Math.min(limit, 100); a provider failure is caught inside the
\* method and degrades to [].
searchPages_NoClamp(limit, prov) ==
    [thrown |-> FALSE, msg |-> "", pageSize |-> limit,
     text |-> IF prov = "fail" THEN "[]" ELSE "[pages]",
     reqs |-> <<ProviderRequest(limit, prov # "fail")>>]
searchPages_Propagate(limit, prov) ==
    [thrown |-> prov = "fail", msg |-> IF prov = "fail" THEN "provider failure" ELSE "",
     pageSize |-> Min(limit, MaxPageSize),
     text |-> IF prov = "fail" THEN "" ELSE "[pages]",
     reqs |-> <<ProviderRequest(Min(limit, MaxPageSize), prov # "fail")>>]
searchPages(limit, prov) ==
    [thrown |-> FALSE, msg |-> "", pageSize |-> Min(limit, MaxPageSize),
     text |-> IF prov = "fail" THEN "[]" ELSE "[pages]",
     reqs |-> <<ProviderRequest(Min(limit, MaxPageSize), prov # "fail")>>]

\* searchNotion: the same search, then getPagePreview for every page found;
\* getPagePreview catches a provider failure and returns 'Preview unavailable'.
searchNotion(limit, prov) ==
    [thrown |-> FALSE, msg |-> "", pageSize |-> Min(limit, MaxPageSize),
     text |-> IF prov = "fail" THEN "[]"
              ELSE IF prov = "blocksFail" THEN "[pages:Preview unavailable]"
              ELSE "[pages]",
     reqs |-> IF prov = "fail"
              THEN <<ProviderRequest(Min(limit, MaxPageSize), FALSE)>>
              ELSE <<ProviderRequest(Min(limit, MaxPageSize), TRUE),
                     ProviderRequest(PreviewPageSize, prov = "ok")>>]

\* getPageContent: blocks.children.list with page_size 100
getPageContent(prov) ==
    [thrown |-> FALSE, msg |-> "", pageSize |-> MaxPageSize,
     text |-> IF prov = "ok" THEN "content" ELSE "Error retrieving content",
     reqs |-> <<ProviderRequest(MaxPageSize, prov = "ok")>>]

\* listRecentPages: the provider search always asks for descending
\* last_edited_time; the pages found are sorted again, by created_time, only
\* when sortBy is "created_time".
listRecentPages(limit, sortBy, prov) ==
    LET found == searchPages(limit, prov)
    IN  IF sortBy = "created_time" /\ found.text # "[]"
        THEN [found EXCEPT !.text = "[pages by created_time]"]
        ELSE found

Thrown(msg) == [thrown |-> TRUE, msg |-> msg, pageSize |-> 0, text |-> "", reqs |-> <<>>]

\* The switch (name) inside the try block of the CallTool handler.  Reading a
\* property of an undefined arguments object raises a TypeError.
Dispatch(name, args, prov) ==
    IF name \notin Range(RegisteredTools)
    THEN Thrown("Unknown tool: " \o name)
    ELSE IF ~args.present
    THEN Thrown("Cannot read properties of undefined")
    ELSE IF name = "get_page_content" THEN getPageContent(prov)
    ELSE IF name = "search_notion"
    THEN searchNotion(LimitOr(args.limit, DefaultLimit), prov)
    ELSE IF name = "list_all_pages"
    THEN searchPages(LimitOr(args.limit, DefaultLimitAll), prov)
    ELSE IF name = "list_recent_pages"
    THEN listRecentPages(LimitOr(args.limit, DefaultLimit), SortOr(args.sort), prov)
    ELSE searchPages(LimitOr(args.limit, DefaultLimit), prov)

\* JSON.stringify({ error: errorMessage })
ErrorJson(msg) == "{error:" \o msg \o "}"

\* The catch block of the CallTool handler: whatever the switch threw becomes
\* a result with isError: true.  threw = the handler itself threw.
Contain_NoFlag(d) ==
    IF d.thrown
    THEN [threw |-> FALSE, msg |-> "", result |-> ResultBody(ErrorJson(d.msg), FALSE)]
    ELSE [threw |-> FALSE, msg |-> "", result |-> ResultBody(d.text, FALSE)]
Contain_Rethrow(d) ==
    IF d.thrown
    THEN [threw |-> TRUE, msg |-> d.msg, result |-> NoBody]
    ELSE [threw |-> FALSE, msg |-> "", result |-> ResultBody(d.text, FALSE)]
Contain(d) ==
    IF d.thrown
    THEN [threw |-> FALSE, msg |-> "", result |-> ResultBody(ErrorJson(d.msg), TRUE)]
    ELSE [threw |-> FALSE, msg |-> "", result |-> ResultBody(d.text, FALSE)]

CallToolHandler(name, args, prov) == Contain(Dispatch(name, args, prov))

\* A property of a tool's input schema: its name, its type, its default (""
\* when it has none) and its enum (the empty set when it has none)
SchemaProp(name, type, default, enum) ==
    [name |-> name, type |-> type, default |-> default, enum |-> enum]
ToolDescriptor(name, properties, required) ==
    [name |-> name, properties |-> properties, required |-> required]

\* The tools array of the ListTools handler (name and inputSchema)
ServerTools ==
    << ToolDescriptor("search_notion",
           {SchemaProp("query", "string", "", {}), SchemaProp("limit", "number", "10", {})},
           {"query"}),
       ToolDescriptor("list_recent_pages",
           {SchemaProp("limit", "number", "10", {}),
            SchemaProp("sort", "string", "last_edited_time",
                       {"created_time", "last_edited_time"})},
           {}),
       ToolDescriptor("get_page_titles_only",
           {SchemaProp("query", "string", "", {}), SchemaProp("limit", "number", "10", {})},
           {}),
       ToolDescriptor("get_page_content", {SchemaProp("pageId", "string", "", {})},
           {"pageId"}),
       ToolDescriptor("list_all_pages", {SchemaProp("limit", "number", "20", {})}, {}) >>

\* The tools array processUserMessage sends to the language model
\* (function.name and function.parameters)
ClientTools_Default ==
    << ToolDescriptor("search_notion",
           {SchemaProp("query", "string", "", {}), SchemaProp("limit", "number", "10", {})},
           {"query"}),
       ToolDescriptor("list_recent_pages",
           {SchemaProp("limit", "number", "10", {}),
            SchemaProp("sort", "string", "last_edited_time",
                       {"created_time", "last_edited_time"})},
           {}),
       ToolDescriptor("get_page_titles_only",
           {SchemaProp("query", "string", "", {}), SchemaProp("limit", "number", "10", {})},
           {}),
       ToolDescriptor("list_all_pages", {SchemaProp("limit", "number", "10", {})}, {}),
       ToolDescriptor("get_page_content", {SchemaProp("pageId", "string", "", {})},
           {"pageId"}) >>
ClientTools ==
    << ToolDescriptor("search_notion",
           {SchemaProp("query", "string", "", {}), SchemaProp("limit", "number", "10", {})},
           {"query"}),
       ToolDescriptor("list_recent_pages",
           {SchemaProp("limit", "number", "10", {}),
            SchemaProp("sort", "string", "last_edited_time",
                       {"created_time", "last_edited_time"})},
           {}),
       ToolDescriptor("get_page_titles_only",
           {SchemaProp("query", "string", "", {}), SchemaProp("limit", "number", "10", {})},
           {}),
       ToolDescriptor("list_all_pages", {SchemaProp("limit", "number", "20", {})}, {}),
       ToolDescriptor("get_page_content", {SchemaProp("pageId", "string", "", {})},
           {"pageId"}) >>

\* The ListTools handler: the literal catalog, in listing order
RECURSIVE Join(_)
Join(names) ==
    IF Len(names) = 0 THEN ""
    ELSE IF Len(names) = 1 THEN names[1]
    ELSE names[1] \o "," \o Join(Tail(names))
ListToolsHandler_Sorted ==
    [text |-> Join(<<"get_page_content", "get_page_titles_only", "list_all_pages",
                     "list_recent_pages", "search_notion">>), reqs |-> <<>>]
ListToolsHandler == [text |-> Join(RegisteredTools), reqs |-> <<>>]

\* The SDK Server the handlers are registered on: it answers initialize
\* itself, turns a handler's return value into a result record and a thrown
\* handler error into an error record, and rejects a method without handler.
ServerAnswer(req, prov) ==
    IF req.method = "initialize" THEN ResultBody("serverInfo", FALSE)
    ELSE IF req.method = "tools/list" THEN ResultBody(ListToolsHandler.text, FALSE)
    ELSE IF req.method = "tools/call"
    THEN LET h == CallToolHandler(req.name, req.args, prov)
         IN  IF h.threw THEN ErrorBody(-32603, h.msg) ELSE h.result
    ELSE ErrorBody(-32601, "Method not found")

\* The provider requests issued while the server answers req
ProviderRequests(req, prov) ==
    IF req.method = "tools/call" THEN Dispatch(req.name, req.args, prov).reqs
    ELSE IF req.method = "tools/list" THEN ListToolsHandler.reqs
    ELSE <<>>

\* ------------------------------------------------- text extraction
\* The values a page or a block of the provider can be: undefined, null, a
\* number, a string, an array, or an object (its entries in order, each a
\* pair <<key, value>>).  Threw stands for a raised TypeError.
Undefined == [t |-> "undefined"]
Null == [t |-> "null"]
Num(n) == [t |-> "number", v |-> n]
Str(s) == [t |-> "string", v |-> s]
Arr(items) == [t |-> "array", v |-> items]
Obj(entries) == [t |-> "object", v |-> entries]
Threw == [t |-> "throw"]

\* !!x
Truthy(x) ==
    /\ x.t \notin {"undefined", "null", "throw"}
    /\ ~(x.t = "number" /\ x.v = 0)
    /\ ~(x.t = "string" /\ x.v = "")
\* key in x, own keys of an object (an array has no named keys)
Has(x, key) == x.t = "object" /\ \E i \in 1..Len(x.v) : x.v[i][1] = key
\* x.key: a TypeError on undefined and null, undefined when x has no such key
Get(x, key) ==
    IF x.t \in {"undefined", "null"} THEN Threw
    ELSE IF Has(x, key)
    THEN x.v[CHOOSE i \in 1..Len(x.v) : x.v[i][1] = key][2]
    ELSE Undefined
\* The values of Object.entries(x), in order; the entries of a string are its
\* characters, which the loop of extractTitle skips as non-objects
Entries(x) ==
    IF x.t = "object" THEN [i \in 1..Len(x.v) |-> x.v[i][2]]
    ELSE IF x.t = "array" THEN x.v
    ELSE <<>>
\* String(x), as Array.prototype.join converts an element
ToStr(x) ==
    IF x.t = "string" THEN x.v
    ELSE IF x.t = "number" THEN ToString(x.v)
    ELSE IF x.t = "object" THEN "[object Object]"
    ELSE ""

\* titleData.title[0].plain_text || 'Untitled'
TitleText(first) ==
    LET plain == Get(first, "plain_text")
    IN  IF plain.t = "throw" THEN Str("Untitled")
        ELSE IF Truthy(plain) THEN plain
        ELSE Str("Untitled")

\* The for loop of extractTitle over the entries from the i-th on
RECURSIVE TitleLoop(_, _)
TitleLoop(values, i) ==
    IF i > Len(values) THEN Str("Untitled")
    ELSE LET value == values[i]
             type == Get(value, "type")
             title == Get(value, "title")
         IN  IF /\ Truthy(value) /\ value.t \in {"object", "array"} /\ Has(value, "type")
                /\ type.t = "string" /\ type.v = "title"
                /\ Truthy(title) /\ title.t = "array" /\ Len(title.v) > 0
             THEN TitleText(title.v[1])
             ELSE TitleLoop(values, i + 1)

\* extractTitle(page); whatever the try block raises gives 'Untitled'
extractTitle(page) ==
    LET properties == Get(page, "properties")
    IN  IF properties.t = "throw" THEN Str("Untitled")
        ELSE IF ~Truthy(properties) THEN Str("Untitled")
        ELSE TitleLoop(Entries(properties), 1)

\* items.map(text => text.plain_text || '').join(''); a TypeError inside the
\* map is caught by extractBlockText, which then returns ''
RECURSIVE JoinText(_)
JoinText(items) ==
    IF items = <<>> THEN ""
    ELSE LET plain == Get(Head(items), "plain_text")
         IN  (IF Truthy(plain) THEN ToStr(plain) ELSE "") \o JoinText(Tail(items))
MapJoin(items) ==
    IF \E i \in 1..Len(items) : Get(items[i], "plain_text").t = "throw"
    THEN Str("")
    ELSE Str(JoinText(items))

\* extractBlockText(block)
extractBlockText(block) ==
    IF ~Truthy(block) THEN Str("")
    ELSE LET blockType == Get(block, "type")
             blockData == IF blockType.t = "string" THEN Get(block, blockType.v)
                          ELSE Undefined
             rich_text == Get(blockData, "rich_text")
             text == Get(blockData, "text")
         IN  IF ~Truthy(blockType) THEN Str("")
             ELSE IF ~Truthy(blockData) THEN Str("")
             ELSE IF Truthy(rich_text) /\ rich_text.t = "array" THEN MapJoin(rich_text.v)
             ELSE IF Truthy(text) /\ text.t = "array" THEN MapJoin(text.v)
             ELSE Str("")

\* The frame of one call of an extraction function: which function, its
\* argument and, once it has returned, what it returned
NoExtraction == [fn |-> "", input |-> Undefined, done |-> FALSE, out |-> Undefined]

\* The state of processUserMessage between two questions of the chat loop:
\* no question is being answered
NotFoundAnswer == "not found"
NoTurn == [phase |-> "prompt", message |-> "", calls |-> <<>>, next |-> 0,
           results |-> <<>>, lm |-> 0, answer |-> ""]

\* ------------------------------------------------- result decoding
\* JSON.parse on the texts JSON.stringify produces in the CallTool handler:
\* the list of page records of the list and search tools (one record stands
\* for the pages found) and the { error } object of the catch block; any
\* other text is not JSON and makes JSON.parse throw.
PageRecord(title) == Obj(<< <<"id", Str("page-1")>>, <<"title", Str(title)>> >>)
JsonTexts ==
    { <<"[]", Arr(<<>>)>>,
      <<"[pages]", Arr(<<PageRecord("Doc A")>>)>>,
      <<"[pages by created_time]", Arr(<<PageRecord("Doc A")>>)>>,
      <<"[pages:Preview unavailable]",
        Arr(<<Obj(<< <<"id", Str("page-1")>>, <<"title", Str("Doc A")>>,
                     <<"preview", Str("Preview unavailable")>> >>)>>)>>,
      <<"{error:Unknown tool: not_a_tool}",
        Obj(<< <<"error", Str("Unknown tool: not_a_tool")>> >>)>>,
      <<"{error:Cannot read properties of undefined}",
        Obj(<< <<"error", Str("Cannot read properties of undefined")>> >>)>> }
JSONparseText(text) ==
    IF \E e \in JsonTexts : e[1] = text
    THEN [ok |-> TRUE, value |-> (CHOOSE e \in JsonTexts : e[1] = text)[2]]
    ELSE [ok |-> FALSE, value |-> Undefined]

\* What callMCPTool does with the result its await gives: the parsed text,
\* the text itself when JSON.parse throws, the result when it has no
\* non-empty first text
DecodeResult_Raw(result) ==
    IF result.text # "" THEN [kind |-> "text", value |-> Str(result.text)]
    ELSE [kind |-> "result", value |-> result]
DecodeResult(result) ==
    IF result.text # ""
    THEN LET parsed == JSONparseText(result.text)
         IN  IF parsed.ok THEN [kind |-> "json", value |-> parsed.value]
             ELSE [kind |-> "text", value |-> Str(result.text)]
    ELSE [kind |-> "result", value |-> result]

\* callMCPTool from its await on: a rejection is thrown on to the caller; a
\* resolution with undefined (a record without result) makes result.content
\* raise a TypeError
callMCPToolReturn(outcome) ==
    IF outcome.how = "reject" THEN [kind |-> "throw", value |-> Str(outcome.body.text)]
    ELSE IF outcome.body.kind # "result" THEN [kind |-> "throw", value |-> Str("TypeError")]
    ELSE DecodeResult(outcome.body)

\* The returns of the tool calls that a callback has just settled
AfterSettle(ret, before, after, written) ==
    LET settled == {n \in 1..Len(written) :
                       after[n] # before[n] /\ written[n].method = "tools/call"}
    IN  IF after = before \/ settled = {} THEN ret
        ELSE [n \in DOMAIN ret \cup settled |->
                 IF n \in settled THEN callMCPToolReturn(after[n][Len(after[n])])
                 ELSE ret[n]]

\* ------------------------------------------------------------- the state
VARIABLES
    requestId,        \* TerminalChatClient.requestId
    pendingRequests,  \* TerminalChatClient.pendingRequests: id -> the call whose callbacks it holds
    mcpProcess,       \* TerminalChatClient.mcpProcess: "null" | "spawned"
    timers,           \* per call, the setTimeout handle: "none" | "armed" | "cleared" | "fired"
    calls,            \* per call, the invocations of its promise's resolve/reject, in order
    issued,           \* the ids getNextId returned, in order; call n carries issued[n]
    stdin,            \* the request records written to the child's stdin, in order
    pc,               \* "new" | "sleeping" | "init" | "chat" | "exited"
    exitCode,         \* status of process.exit, -1 while the client runs
    child,            \* the subprocess: "none" | "running" | "exit0" | "exit1" | "error"
    evDone,           \* the child's exit/error event has been handled
    wire,             \* bytes the child wrote to stdout that are not yet delivered
    noise,            \* number of lines on stdout that answer no request
    srvResp,          \* per position in stdin, the response the server wrote (NoBody: none yet)
    provReq,          \* per position in stdin, the provider requests made to answer it
    diag,             \* the console lines the stderr handler printed, in order
    dropped,          \* id of a record the last step parsed and found no pending entry for, else 0
    rxTail,           \* the delivered bytes after the last line break
    extraction,       \* the call of extractTitle / extractBlockText in progress, if any
    returned,         \* call of callMCPTool -> what it returned or threw, once it has
    turn              \* processUserMessage: the question being answered and its tool loop

vars == <<requestId, pendingRequests, mcpProcess, timers, calls, issued, stdin, pc,
          exitCode, child, evDone, wire, noise, srvResp, provReq, diag, dropped, rxTail,
          extraction, returned, turn>>

clientVars == <<requestId, pendingRequests, mcpProcess, timers, calls, issued, stdin,
                pc, exitCode>>
rpcVars == <<requestId, pendingRequests, timers, calls, issued, stdin>>

Calls == 1..MaxId
Slots == 1..(IF MaxReq > MaxId THEN MaxReq ELSE MaxId)

Init ==
    /\ requestId = 0
    /\ pendingRequests = <<>>
    /\ mcpProcess = "null"
    /\ timers = [n \in Calls |-> "none"]
    /\ calls = [n \in Calls |-> <<>>]
    /\ issued = <<>>
    /\ stdin = <<>>
    /\ pc = "new"
    /\ exitCode = -1
    /\ child = "none"
    /\ evDone = FALSE
    /\ wire = <<>>
    /\ noise = 0
    /\ srvResp = [k \in Slots |-> NoBody]
    /\ provReq = [k \in Slots |-> <<>>]
    /\ diag = <<>>
    /\ dropped = 0
    /\ rxTail = <<>>
    /\ extraction = NoExtraction
    /\ returned = <<>>
    /\ turn = NoTurn

\* ------------------------------------------------------- the RPC client
getNextId_Stuck(r) == r
getNextId_Reuse(r) == IF r >= 2 THEN 2 ELSE r + 1
getNextId(r) == r + 1

\* Map.set / Map.delete / Map.get on pendingRequests
MapSet(m, k, v) == [x \in DOMAIN m \cup {k} |-> IF x = k THEN v ELSE m[x]]
MapDelete_Keep(m, k) == m
MapDelete(m, k) == [x \in DOMAIN m \ {k} |-> m[x]]
\* this.pendingRequests.get(response.id): the key of the entry found, 0 if none
MapGet_Newest(m, id) ==
    IF id \in DOMAIN m THEN id
    ELSE IF DOMAIN m = {} THEN 0 ELSE CHOOSE k \in DOMAIN m : \A j \in DOMAIN m : k >= j
MapGet_Oldest(m, id) ==
    IF DOMAIN m = {} THEN 0 ELSE CHOOSE k \in DOMAIN m : \A j \in DOMAIN m : k <= j
MapGet(m, id) == IF id \in DOMAIN m THEN id ELSE 0

\* if (response.error) pending.reject(new Error(response.error.message))
\* else pending.resolve(response.result)
Settlement_FlagRejects(body) ==
    IF body.kind = "error" \/ body.isError THEN [how |-> "reject", body |-> body]
    ELSE [how |-> "resolve", body |-> body]
Settlement_AlwaysResolve(body) == [how |-> "resolve", body |-> body]
Settlement(body) ==
    IF body.kind = "error" THEN [how |-> "reject", body |-> body]
    ELSE [how |-> "resolve", body |-> body]

\* One statement of a callback acting on call n (request id id), as logged in
\* st.ops in the order the statements run: "setTimeout", "set"
\* (pendingRequests.set), "write" (stdin.write), "delete"
\* (pendingRequests.delete), "clearTimeout", "resolve", "reject"; entry and
\* timer are what the statement finds when it starts.
Op(kind, n, id, st) ==
    [op |-> kind, call |-> n,
     entry |-> (id \in DOMAIN st.pending /\ st.pending[id] = n),
     timer |-> st.timers[n]]

\* The wrappers stored in the entry: clearTimeout(timeout), then the promise's
\* resolve or reject.
InvokeCallback_NoClear(st, n, outcome) ==
    [st EXCEPT !.calls[n] = Append(@, outcome),
               !.ops = Append(@, Op(outcome.how, n, issued[n], st))]
InvokeCallback(st, n, outcome) ==
    LET cleared == [st EXCEPT !.timers[n] = "cleared",
                              !.ops = Append(@, Op("clearTimeout", n, issued[n], st))]
    IN  [cleared EXCEPT !.calls[n] = Append(@, outcome),
                        !.ops = Append(@, Op(outcome.how, n, issued[n], cleared))]

\* this.pendingRequests.delete(response.id) for the entry of call n
DeleteEntry(st, id, n) ==
    [st EXCEPT !.pending = MapDelete(@, id), !.ops = Append(@, Op("delete", n, id, st))]

\* The body of the for loop of handleMCPResponse for one line
HandleLine_CallbackFirst(st, line) ==
    LET r == JSONparse(line)
        k == IF r.ok THEN MapGet(st.pending, r.id) ELSE 0
    IN  IF k = 0 THEN (IF r.ok THEN [st EXCEPT !.dropped = r.id] ELSE st)
        ELSE DeleteEntry(InvokeCallback(st, st.pending[k], Settlement(r.body)),
                         r.id, st.pending[k])
HandleLine(st, line) ==
    LET r == JSONparse(line)
        k == IF r.ok THEN MapGet(st.pending, r.id) ELSE 0
    IN  IF k = 0 THEN (IF r.ok THEN [st EXCEPT !.dropped = r.id] ELSE st)
        ELSE InvokeCallback(DeleteEntry(st, r.id, st.pending[k]),
                            st.pending[k], Settlement(r.body))

RECURSIVE HandleLines(_, _)
HandleLines(st, lines) ==
    IF lines = <<>> THEN st
    ELSE HandleLines(HandleLine(st, Head(lines)), Tail(lines))

\* handleMCPResponse(data): every chunk is split and parsed on its own
handleMCPResponse(st, data) == HandleLines(st, NonBlank(SplitNL(data, <<>>)))

\* What follows `await this.sendMCPRequest(initialize)` in initializeMCP once
\* the handshake call (call 1) has settled; it runs right after the callback
\* that settled it.
AfterAwait_ExitZero(c) ==
    IF pc = "init" /\ c[1] # <<>>
    THEN IF c[1][1].how = "resolve" THEN <<"chat", exitCode>> ELSE <<"exited", 0>>
    ELSE <<pc, exitCode>>
AfterAwait_NoExit(c) ==
    IF pc = "init" /\ c[1] # <<>> THEN <<"chat", exitCode>> ELSE <<pc, exitCode>>
AfterAwait(c) ==
    IF pc = "init" /\ c[1] # <<>>
    THEN IF c[1][1].how = "resolve" THEN <<"chat", exitCode>> ELSE <<"exited", 1>>
    ELSE <<pc, exitCode>>

\* sendMCPRequest(request) for call n: arm the timer, insert the entry,
\* write the line.
sendMCPRequest_NoTimer(n, request) ==
    /\ pendingRequests' = MapSet(pendingRequests, request.id, n)
    /\ stdin' = Append(stdin, request)
    /\ UNCHANGED <<calls, timers>>
\* The executor of the promise of sendMCPRequest, statement by statement:
\* setTimeout, this.pendingRequests.set, this.mcpProcess.stdin?.write
SendSteps_WriteFirst(st, n, request) ==
    LET written == [st EXCEPT !.stdin = Append(@, request),
                              !.ops = Append(@, Op("write", n, request.id, st))]
        armed == [written EXCEPT !.timers[n] = "armed",
                                 !.ops = Append(@, Op("setTimeout", n, request.id, written))]
    IN  [armed EXCEPT !.pending = MapSet(@, request.id, n),
                      !.ops = Append(@, Op("set", n, request.id, armed))]
SendSteps_WriteTwice(st, n, request) ==
    LET armed == [st EXCEPT !.timers[n] = "armed",
                            !.ops = Append(@, Op("setTimeout", n, request.id, st))]
        set == [armed EXCEPT !.pending = MapSet(@, request.id, n),
                             !.ops = Append(@, Op("set", n, request.id, armed))]
    IN  [set EXCEPT !.stdin = @ \o <<request, request>>,
                    !.ops = Append(@, Op("write", n, request.id, set))]
SendSteps(st, n, request) ==
    LET armed == [st EXCEPT !.timers[n] = "armed",
                            !.ops = Append(@, Op("setTimeout", n, request.id, st))]
        set == [armed EXCEPT !.pending = MapSet(@, request.id, n),
                             !.ops = Append(@, Op("set", n, request.id, armed))]
    IN  [set EXCEPT !.stdin = Append(@, request),
                    !.ops = Append(@, Op("write", n, request.id, set))]
sendMCPRequest(n, request) ==
    IF mcpProcess = "null"
    THEN /\ calls' = [calls EXCEPT ![n] = Append(@, [how |-> "reject",
                         body |-> ErrorBody(0, "MCP process not running")])]
         /\ UNCHANGED <<timers, pendingRequests, stdin>>
    ELSE /\ LET st == SendSteps([pending |-> pendingRequests, timers |-> timers,
                                 stdin |-> stdin, ops |-> <<>>], n, request)
            IN  /\ timers' = st.timers
                /\ pendingRequests' = st.pending
                /\ stdin' = st.stdin
         /\ UNCHANGED calls

Running == pc \notin {"new", "exited"}

\* startChat -> initializeMCP up to the startup sleep: spawn, attach handlers
StartChat ==
    /\ pc = "new"
    /\ pc' = "sleeping"
    /\ mcpProcess' = "spawned"
    /\ child' = "running"
    /\ UNCHANGED <<rpcVars, exitCode, evDone, wire, noise, srvResp, provReq, diag, rxTail>>
    /\ dropped' = 0
    /\ UNCHANGED <<extraction, returned, turn>>

\* initializeMCP after the sleep: the handshake request
Initialize ==
    /\ pc = "sleeping"
    /\ LET id == getNextId(requestId)
       IN  /\ requestId' = id
           /\ issued' = Append(issued, id)
           /\ sendMCPRequest(Len(issued) + 1,
                  [id |-> id, method |-> "initialize", name |-> "", args |-> NoArgs])
    /\ pc' = "init"
    /\ UNCHANGED <<mcpProcess, exitCode, child, evDone, wire, noise, srvResp, provReq, diag, rxTail>>
    /\ dropped' = 0
    /\ UNCHANGED <<extraction, returned, turn>>

\* callMCPTool(toolName, params) up to its await
CallMCPTool(name, args) ==
    /\ pc = "chat"
    /\ Len(issued) < MaxId
    /\ LET id == getNextId(requestId)
       IN  /\ requestId' = id
           /\ issued' = Append(issued, id)
           /\ sendMCPRequest(Len(issued) + 1,
                  [id |-> id, method |-> "tools/call", name |-> name, args |-> args])
    /\ returned' = AfterSettle(returned, calls, calls', stdin')
    /\ UNCHANGED <<mcpProcess, pc, exitCode, child, evDone, wire, noise, srvResp, provReq, diag, rxTail>>
    /\ dropped' = 0
    /\ UNCHANGED extraction

\* The complete lines of the delivered stream that the chunk closes
ClosedLines(tail, data) ==
    LET pieces == SplitNL(tail \o data, <<>>)
    IN  SubSeq(pieces, 1, Len(pieces) - 1)
OpenTail(tail, data) ==
    LET pieces == SplitNL(tail \o data, <<>>)
    IN  pieces[Len(pieces)]
HasRecord(lines, i) ==
    \E j \in 1..Len(lines) : JSONparse(lines[j]).ok /\ JSONparse(lines[j]).id = i

\* stdout 'data' event with the first n undelivered bytes
Deliver(n) ==
    /\ Running
    /\ n \in 1..Len(wire)
    /\ LET data == SubSeq(wire, 1, n)
           st == handleMCPResponse([pending |-> pendingRequests, timers |-> timers,
                                    calls |-> calls, dropped |-> 0, ops |-> <<>>], data)
       IN  /\ pendingRequests' = st.pending
           /\ timers' = st.timers
           /\ calls' = st.calls
           /\ dropped' = st.dropped
           /\ returned' = AfterSettle(returned, calls, st.calls, stdin)
           /\ UNCHANGED <<extraction, turn>>
           /\ pc' = AfterAwait(st.calls)[1]
           /\ exitCode' = AfterAwait(st.calls)[2]
           /\ rxTail' = OpenTail(rxTail, data)
    /\ wire' = SubSeq(wire, n + 1, Len(wire))
    /\ UNCHANGED <<requestId, issued, stdin, mcpProcess, child, evDone, noise, srvResp,
                   provReq, diag>>

\* The setTimeout callback of call n: this.pendingRequests.delete(request.id),
\* then reject(new Error(...)) of the promise itself
TimeoutBody_Keep(m, id) == m
TimeoutBody(m, id) == MapDelete(m, id)
TimerCallback(st, n) ==
    LET fired == [st EXCEPT !.timers[n] = "fired"]
        deleted == [fired EXCEPT !.pending = TimeoutBody(@, issued[n]),
                                 !.ops = Append(@, Op("delete", n, issued[n], fired))]
    IN  [deleted EXCEPT !.calls[n] = Append(@, [how |-> "reject", body |-> TimeoutError]),
                        !.ops = Append(@, Op("reject", n, issued[n], deleted))]
Timeout(n) ==
    /\ Running
    /\ timers[n] = "armed"
    /\ LET st == TimerCallback([pending |-> pendingRequests, timers |-> timers,
                                calls |-> calls, dropped |-> 0, ops |-> <<>>], n)
       IN  /\ pendingRequests' = st.pending
           /\ calls' = st.calls
           /\ timers' = st.timers
    /\ pc' = AfterAwait(calls')[1]
    /\ exitCode' = AfterAwait(calls')[2]
    /\ returned' = AfterSettle(returned, calls, calls', stdin)
    /\ UNCHANGED <<requestId, issued, stdin, mcpProcess, child, evDone, wire, noise,
                   srvResp, provReq, diag, rxTail>>
    /\ dropped' = 0
    /\ UNCHANGED <<extraction, turn>>

\* mcpProcess.on('exit', code => ...); code 1 stands for every code other
\* than 0, null (the child was killed by a signal) included.
ExitEffect_Ignore(code) == <<pc, exitCode>>
ExitEffect_Fatal(code) == <<"exited", IF code # 0 THEN 1 ELSE 0>>
ExitEffect(code) == IF code # 0 THEN <<"exited", 1>> ELSE <<pc, exitCode>>
OnExit ==
    /\ Running
    /\ child \in {"exit0", "exit1"}
    /\ ~evDone
    /\ evDone' = TRUE
    /\ pc' = ExitEffect(IF child = "exit0" THEN 0 ELSE 1)[1]
    /\ exitCode' = ExitEffect(IF child = "exit0" THEN 0 ELSE 1)[2]
    /\ UNCHANGED <<rpcVars, mcpProcess, child, wire, noise, srvResp, provReq, diag, rxTail>>
    /\ dropped' = 0
    /\ UNCHANGED <<extraction, returned, turn>>

\* mcpProcess.on('error', ...)
OnError ==
    /\ Running
    /\ child = "error"
    /\ ~evDone
    /\ evDone' = TRUE
    /\ pc' = "exited"
    /\ exitCode' = 1
    /\ UNCHANGED <<rpcVars, mcpProcess, child, wire, noise, srvResp, provReq, diag, rxTail>>
    /\ dropped' = 0
    /\ UNCHANGED <<extraction, returned, turn>>

\* mcpProcess.stderr.on('data', ...): the handler prints one of two console
\* lines, chosen by message.includes('Notion MCP Server started'), and
\* touches nothing else; pending is the map it leaves behind.
StderrMessages == {"Notion MCP Server started", "Search error"}
StderrHandler_Flush(message, pending) ==
    [console |-> IF message = "Notion MCP Server started" THEN "log" ELSE "error",
     pending |-> <<>>]
StderrHandler(message, pending) ==
    [console |-> IF message = "Notion MCP Server started" THEN "log" ELSE "error",
     pending |-> pending]
OnStderr(message) ==
    /\ Running
    /\ Len(diag) < MaxErr
    /\ diag' = Append(diag, StderrHandler(message, pendingRequests).console)
    /\ pendingRequests' = StderrHandler(message, pendingRequests).pending
    /\ UNCHANGED <<requestId, timers, calls, issued, stdin, mcpProcess, pc, exitCode,
                   child, evDone, wire, noise, srvResp, provReq, rxTail>>
    /\ dropped' = 0
    /\ UNCHANGED <<extraction, returned, turn>>

\* cleanup(): the user typed exit or quit
Cleanup ==
    /\ pc = "chat"
    /\ child' = IF child = "running" THEN "exit1" ELSE child
    /\ pc' = "exited"
    /\ exitCode' = 0
    /\ UNCHANGED <<rpcVars, mcpProcess, evDone, wire, noise, srvResp, provReq, diag, rxTail>>
    /\ dropped' = 0
    /\ UNCHANGED <<extraction, returned, turn>>

\* --------------------------------------------------------- the subprocess
\* The server answers the k-th request it read, in any order of completion
ServerRespond(k, prov) ==
    /\ pc # "exited"
    /\ child = "running"
    /\ k \in 1..Len(stdin)
    /\ srvResp[k] = NoBody
    /\ LET body == ServerAnswer(stdin[k], prov)
       IN  /\ srvResp' = [srvResp EXCEPT ![k] = body]
           /\ provReq' = [provReq EXCEPT ![k] = ProviderRequests(stdin[k], prov)]
           /\ Len(wire) + 3 <= MaxWire
           /\ wire' = wire \o ResponseLine(stdin[k].id, body)
    /\ UNCHANGED <<clientVars, child, evDone, noise, diag, rxTail>>
    /\ dropped' = 0
    /\ UNCHANGED <<extraction, returned, turn>>

\* Lines on the child's stdout that answer nothing: an error record for an
\* id already issued, a log line
NoiseLines ==
    {ResponseLine(i, b) : i \in 1..requestId,
         b \in {ErrorBody(-32603, "Internal error")}}
    \cup {<<JUNK, NL>>}
\* Lines that are not well-formed responses: a JSON record with the id of a
\* request but neither result nor error, a log line
MalformedLines ==
    {ResponseLine(i, NoBody) : i \in 1..requestId} \cup {<<JUNK, NL>>}
ChildNoise(line) ==
    /\ Running
    /\ child = "running"
    /\ noise < MaxNoise
    /\ noise' = noise + 1
    /\ Len(wire) + Len(line) <= MaxWire
    /\ wire' = wire \o line
    /\ UNCHANGED <<clientVars, child, evDone, srvResp, provReq, diag, rxTail>>
    /\ dropped' = 0
    /\ UNCHANGED <<extraction, returned, turn>>

\* The subprocess terminates with exit code 0 or not 0
ChildExit(code) ==
    /\ Running
    /\ child = "running"
    /\ child' = IF code = 0 THEN "exit0" ELSE "exit1"
    /\ UNCHANGED <<clientVars, evDone, wire, noise, srvResp, provReq, diag, rxTail>>
    /\ dropped' = 0
    /\ UNCHANGED <<extraction, returned, turn>>

\* The subprocess could not be spawned
ChildError ==
    /\ pc = "sleeping"
    /\ child = "running"
    /\ child' = "error"
    /\ UNCHANGED <<clientVars, evDone, wire, noise, srvResp, provReq, diag, rxTail>>
    /\ dropped' = 0
    /\ UNCHANGED <<extraction, returned, turn>>

\* Tool names and argument objects the callers pass
CallNames == {"search_notion", "not_a_tool"}
CallArgs == {Args(0)}
Outcomes == {"ok"}

\* processUserMessage issues its next tool call, and the chat loop asks its
\* next question, only when the call before has settled.
Idle_NoWait == TRUE
Idle == \A n \in 1..Len(issued) : calls[n] # <<>>
ToolCall(name, args) == Idle /\ CallMCPTool(name, args) /\ UNCHANGED turn
UserExit == Idle /\ Cleanup

\* The client as wired, with a subprocess that may also write lines nobody
\* asked for
Next ==
    \/ StartChat
    \/ Initialize
    \/ \E name \in CallNames, args \in CallArgs : ToolCall(name, args)
    \/ \E n \in 1..Len(wire) : Deliver(n)
    \/ \E n \in Calls : Timeout(n)
    \/ OnExit
    \/ OnError
    \/ UserExit
    \/ \E k \in Slots, prov \in Outcomes : ServerRespond(k, prov)
    \/ \E line \in NoiseLines : ChildNoise(line)
    \/ \E code \in {0, 1} : ChildExit(code)
    \/ ChildError

Spec == Init /\ [][Next]_vars

\* The client as wired, with a subprocess that answers or not, answers
\* late, writes log lines to its stdout, and exits.  A timer that is armed
\* fires unless it is cleared first: setTimeout runs its callback after 20 s
\* for as long as the client process lives.
NextLive ==
    \/ StartChat
    \/ Initialize
    \/ \E name \in CallNames, args \in CallArgs : ToolCall(name, args)
    \/ \E n \in 1..Len(wire) : Deliver(n)
    \/ \E n \in Calls : Timeout(n)
    \/ OnExit
    \/ OnError
    \/ UserExit
    \/ \E k \in Slots, prov \in Outcomes : ServerRespond(k, prov)
    \/ ChildNoise(<<JUNK, NL>>)
    \/ \E code \in {0, 1} : ChildExit(code)
    \/ ChildError

SpecLive == Init /\ [][NextLive]_vars /\ \A n \in Calls : WF_vars(Timeout(n))

\* The client as wired, with a subprocess whose extra lines are malformed
NextMalformed ==
    \/ StartChat
    \/ Initialize
    \/ \E name \in CallNames, args \in CallArgs : ToolCall(name, args)
    \/ \E n \in 1..Len(wire) : Deliver(n)
    \/ \E n \in Calls : Timeout(n)
    \/ OnExit
    \/ OnError
    \/ UserExit
    \/ \E k \in Slots, prov \in Outcomes : ServerRespond(k, prov)
    \/ \E line \in MalformedLines : ChildNoise(line)
    \/ \E code \in {0, 1} : ChildExit(code)
    \/ ChildError

SpecMalformed == Init /\ [][NextMalformed]_vars

\* The client wired to the server, asking for titles and for page content,
\* with a subprocess that may also answer the latest tool call with a result
\* that has no text
DecodeNames == {"get_page_titles_only", "get_page_content"}
EmptyResults == {ResponseLine(i, ResultBody("", FALSE)) : i \in {requestId} \ {0, 1}}
NextDecode ==
    \/ StartChat
    \/ Initialize
    \/ \E name \in DecodeNames : ToolCall(name, Args(3))
    \/ \E n \in 1..Len(wire) : Deliver(n)
    \/ \E n \in Calls : Timeout(n)
    \/ \E k \in Slots, prov \in {"ok", "fail"} : ServerRespond(k, prov)
    \/ \E line \in EmptyResults : ChildNoise(line)

SpecDecode == Init /\ [][NextDecode]_vars

\* The RPC layer (getNextId, sendMCPRequest, callMCPTool, handleMCPResponse)
\* under callers that do not wait for one another
NextConcurrent ==
    \/ StartChat
    \/ Initialize
    \/ \E name \in CallNames, args \in CallArgs :
           CallMCPTool(name, args) /\ UNCHANGED turn
    \/ \E n \in 1..Len(wire) : Deliver(n)
    \/ \E n \in Calls : Timeout(n)
    \/ OnExit
    \/ OnError
    \/ Cleanup
    \/ \E k \in Slots, prov \in Outcomes : ServerRespond(k, prov)
    \/ \E code \in {0, 1} : ChildExit(code)
    \/ ChildError

SpecConcurrent == Init /\ [][NextConcurrent]_vars

\* The same layer with a subprocess that also writes to its stderr
NextDiag ==
    \/ NextConcurrent
    \/ \E message \in StderrMessages : OnStderr(message)

SpecDiag == Init /\ [][NextDiag]_vars

\* ------------------------------------------- the server under any peer
\* The server as a program of its own: its stdin carries the requests of
\* whatever MCP client spawned it.
PeerRequests ==
    {[id |-> Len(stdin) + 1, method |-> m, name |-> "", args |-> NoArgs] :
        m \in {"initialize", "tools/list", "resources/list"}}
    \cup {[id |-> Len(stdin) + 1, method |-> "tools/call", name |-> nm, args |-> a] :
        nm \in Range(RegisteredTools) \cup {"not_a_tool"},
        a \in {NoArgs, Args(0), Args(3), Args(500)}}
    \cup {[id |-> Len(stdin) + 1, method |-> "tools/call", name |-> "list_recent_pages",
           args |-> ArgsSort(0, "created_time")]}

PeerRequest(req) ==
    /\ child = "running"
    /\ Len(stdin) < MaxReq
    /\ stdin' = Append(stdin, req)
    /\ UNCHANGED <<requestId, pendingRequests, mcpProcess, timers, calls, issued, pc,
                   exitCode, child, evDone, wire, noise, srvResp, provReq, diag, rxTail>>
    /\ dropped' = 0
    /\ UNCHANGED <<extraction, returned, turn>>

PeerRead ==
    /\ wire # <<>>
    /\ wire' = <<>>
    /\ UNCHANGED <<clientVars, child, evDone, noise, srvResp, provReq, diag, rxTail>>
    /\ dropped' = 0
    /\ UNCHANGED <<extraction, returned, turn>>

ProviderOutcomes == {"ok", "fail", "blocksFail"}

InitServer ==
    /\ requestId = 0
    /\ pendingRequests = <<>>
    /\ mcpProcess = "null"
    /\ timers = [n \in Calls |-> "none"]
    /\ calls = [n \in Calls |-> <<>>]
    /\ issued = <<>>
    /\ stdin = <<>>
    /\ pc = "new"
    /\ exitCode = -1
    /\ child = "running"
    /\ evDone = FALSE
    /\ wire = <<>>
    /\ noise = 0
    /\ srvResp = [k \in Slots |-> NoBody]
    /\ provReq = [k \in Slots |-> <<>>]
    /\ diag = <<>>
    /\ dropped = 0
    /\ rxTail = <<>>
    /\ extraction = NoExtraction
    /\ returned = <<>>
    /\ turn = NoTurn

NextServer ==
    \/ \E req \in PeerRequests : PeerRequest(req)
    \/ \E k \in Slots, prov \in ProviderOutcomes : ServerRespond(k, prov)
    \/ PeerRead

SpecServer == InitServer /\ [][NextServer]_vars

\* -------------------------------------- the extraction functions alone
\* The values the provider's page and block objects are drawn from: every
\* field may be missing, null or of the wrong type; arrays hold up to
\* MaxItems items.
RichItems ==
    {Null, Str("x"), Obj(<<>>)}
    \cup {Obj(<< <<"plain_text", plain>> >>) : plain \in {Null, Str(""), Str("Doc A"), Num(42)}}
ItemArrays == UNION {[1..n -> RichItems] : n \in 0..MaxItems}
TitleFields == {Null, Str("Doc A")} \cup {Arr(items) : items \in ItemArrays}
PropertyValues ==
    {Null, Str("x"), Obj(<<>>), Obj(<< <<"type", Str("title")>> >>)}
    \cup {Obj(<< <<"type", type>>, <<"title", title>> >>) :
            type \in {Str("title"), Str("rich_text"), Num(1)}, title \in TitleFields}
OtherProperties ==
    {Null, Obj(<< <<"type", Str("rich_text")>>, <<"rich_text", Arr(<<>>)>> >>),
     Obj(<< <<"type", Str("title")>>, <<"title", Arr(<<>>)>> >>)}
PropertyMaps ==
    {Null, Num(5), Str("abc"), Obj(<<>>)}
    \cup {Obj(<< <<"Name", value>> >>) : value \in PropertyValues}
    \cup {Obj(<< <<"Tags", other>>, <<"Name", value>> >>) :
            other \in OtherProperties, value \in PropertyValues}
    \cup {Arr(<<value>>) : value \in PropertyValues}
Pages ==
    {Undefined, Null, Num(7), Obj(<<>>)}
    \cup {Obj(<< <<"properties", properties>> >>) : properties \in PropertyMaps}
BlockDatas ==
    {Null, Str("x"), Obj(<<>>)}
    \cup {Obj(<< <<key, value>> >>) :
            key \in {"rich_text", "text", "caption"},
            value \in {Null, Str("s")} \cup {Arr(items) : items \in ItemArrays}}
    \cup {Obj(<< <<"rich_text", value>>, <<"text", Arr(items)>> >>) :
            value \in {Null, Str("s")}, items \in ItemArrays}
Blocks ==
    {Undefined, Null, Num(7), Str("b"), Obj(<<>>), Obj(<< <<"type", Str("paragraph")>> >>)}
    \cup {Obj(<< <<"type", type>>, <<"paragraph", data>> >>) :
            type \in {Str("paragraph"), Str("heading_1"), Null, Num(1)},
            data \in BlockDatas}

\* The call of this.extractTitle(item) in the list and search methods
ExtractTitle ==
    /\ extraction.fn = "extractTitle" /\ ~extraction.done
    /\ extraction' = [extraction EXCEPT !.done = TRUE,
                                        !.out = extractTitle(extraction.input)]
    /\ UNCHANGED <<clientVars, child, evDone, wire, noise, srvResp, provReq, diag,
                   dropped, rxTail, returned, turn>>

\* The call of this.extractBlockText(block) in getPageContent and getPagePreview
ExtractBlockText ==
    /\ extraction.fn = "extractBlockText" /\ ~extraction.done
    /\ extraction' = [extraction EXCEPT !.done = TRUE,
                                        !.out = extractBlockText(extraction.input)]
    /\ UNCHANGED <<clientVars, child, evDone, wire, noise, srvResp, provReq, diag,
                   dropped, rxTail, returned, turn>>

InitExtract ==
    /\ requestId = 0
    /\ pendingRequests = <<>>
    /\ mcpProcess = "null"
    /\ timers = [n \in Calls |-> "none"]
    /\ calls = [n \in Calls |-> <<>>]
    /\ issued = <<>>
    /\ stdin = <<>>
    /\ pc = "new"
    /\ exitCode = -1
    /\ child = "running"
    /\ evDone = FALSE
    /\ wire = <<>>
    /\ noise = 0
    /\ srvResp = [k \in Slots |-> NoBody]
    /\ provReq = [k \in Slots |-> <<>>]
    /\ diag = <<>>
    /\ dropped = 0
    /\ rxTail = <<>>
    /\ returned = <<>>
    /\ turn = NoTurn
    /\ \/ \E page \in Pages :
              extraction = [fn |-> "extractTitle", input |-> page, done |-> FALSE,
                            out |-> Undefined]
       \/ \E block \in Blocks :
              extraction = [fn |-> "extractBlockText", input |-> block, done |-> FALSE,
                            out |-> Undefined]

NextExtract ==
    \/ ExtractTitle
    \/ ExtractBlockText

SpecExtract == InitExtract /\ [][NextExtract]_vars

\* ------------------------------------------------- the orchestrator
\* What the body of the try block in the tool loop adds to notionResults for
\* one return of callMCPTool: the items of an array, any other truthy value
\* without a truthy error property, and nothing when the call threw
WholeResult == Obj(<< <<"content", Arr(<<>>)>> >>)
Pushed(ret) ==
    IF ret.kind = "throw" THEN <<>>
    ELSE IF ret.kind = "result" THEN <<WholeResult>>
    ELSE IF ret.value.t = "array" THEN ret.value.v
    ELSE IF Truthy(ret.value) /\ ~Truthy(Get(ret.value, "error")) THEN <<ret.value>>
    ELSE <<>>

\* The questions a user types, by the keywords generateFinalResponse looks
\* for, and the tool calls a model answer proposes: a name and whether
\* JSON.parse accepts its arguments
Messages == {"plain", "titles", "content"}
Proposal(name, json) == [name |-> name, json |-> json]
TurnCalls ==
    {Proposal("search_notion", TRUE), Proposal("not_a_tool", TRUE),
     Proposal("search_notion", FALSE)}
RECURSIVE SeqsUpTo(_, _)
SeqsUpTo(S, n) ==
    IF n = 0 THEN {<<>>}
    ELSE LET shorter == SeqsUpTo(S, n - 1)
         IN  shorter \cup {Append(q, x) : q \in shorter, x \in S}
Proposals == SeqsUpTo(TurnCalls, MaxTools)

\* notionResults once the call the loop was waiting for has returned
Collected ==
    IF turn.next > 1 THEN turn.results \o Pushed(returned[Len(issued)])
    ELSE turn.results

\* The answer a question ends with; the chat loop prints it and prompts again
Answer(text, lm) == [NoTurn EXCEPT !.next = turn.next, !.answer = text, !.lm = lm]
OrchestratorFrame ==
    /\ UNCHANGED <<clientVars, child, evDone, wire, noise, srvResp, provReq, diag, rxTail,
                   extraction, returned>>
    /\ dropped' = 0

\* askQuestion with a question, and processUserMessage up to the tool loop:
\* the model is asked once; an answer without tool calls is returned as it
\* is, a failed request ends in the outer catch
AskQuestion(message, proposed, lmOk) ==
    /\ pc = "chat"
    /\ turn.phase = "prompt"
    /\ Idle
    /\ ~lmOk => proposed = <<>>
    /\ turn' = IF ~lmOk
               THEN [NoTurn EXCEPT !.lm = 1, !.answer = "error"]
               ELSE IF proposed = <<>>
               THEN [NoTurn EXCEPT !.lm = 1, !.answer = "model"]
               ELSE [NoTurn EXCEPT !.phase = "loop", !.message = message,
                                   !.calls = proposed, !.next = 1, !.lm = 1]
    /\ OrchestratorFrame

\* One iteration of the tool loop, from the return of the call before (if
\* any) to the await of the next call
LoopCall_StopOnFailure ==
    /\ turn.phase = "loop"
    /\ Idle
    /\ turn.next <= Len(turn.calls)
    /\ turn.calls[turn.next].json
    /\ IF turn.next > 1 /\ returned[Len(issued)].kind = "throw"
       THEN /\ pc = "chat"
            /\ turn' = Answer("error", turn.lm)
            /\ OrchestratorFrame
       ELSE /\ CallMCPTool(turn.calls[turn.next].name, Args(3))
            /\ turn' = [turn EXCEPT !.next = @ + 1, !.results = Collected]
LoopCall ==
    /\ turn.phase = "loop"
    /\ Idle
    /\ turn.next <= Len(turn.calls)
    /\ turn.calls[turn.next].json
    /\ CallMCPTool(turn.calls[turn.next].name, Args(3))
    /\ turn' = [turn EXCEPT !.next = @ + 1, !.results = Collected]

\* JSON.parse(toolCall.function.arguments) throws: it is outside the try
\* block of the loop, so the outer catch ends the question
LoopArgsError ==
    /\ pc = "chat"
    /\ turn.phase = "loop"
    /\ Idle
    /\ turn.next <= Len(turn.calls)
    /\ ~turn.calls[turn.next].json
    /\ turn' = Answer("error", turn.lm)
    /\ OrchestratorFrame

\* generateFinalResponse up to its first await or its return
FinalResponse(lmOk) ==
    LET toolUsed == turn.calls[1].name
        first == Collected[1]
    IN  IF toolUsed = "get_page_titles_only" \/ turn.message = "titles"
        THEN /\ turn' = Answer("titles", turn.lm)
             /\ OrchestratorFrame
        ELSE IF toolUsed \in {"list_recent_pages", "list_all_pages"}
        THEN /\ turn' = Answer("list", turn.lm)
             /\ OrchestratorFrame
        ELSE IF turn.message = "content" /\ Truthy(Get(first, "id"))
        THEN /\ CallMCPTool("get_page_content", Args(0))
             /\ turn' = [turn EXCEPT !.phase = "content", !.results = Collected]
        ELSE /\ turn' = Answer(IF lmOk THEN "general" ELSE "error", turn.lm + 1)
             /\ OrchestratorFrame

\* The end of the tool loop: the fixed answer when notionResults is empty,
\* generateFinalResponse otherwise
LoopEnd(lmOk) ==
    /\ pc = "chat"
    /\ turn.phase = "loop"
    /\ Idle
    /\ turn.next > Len(turn.calls)
    /\ IF Collected = <<>>
       THEN /\ turn' = Answer(NotFoundAnswer, turn.lm)
            /\ OrchestratorFrame
       ELSE FinalResponse(lmOk)

\* generateFinalResponse after get_page_content has returned or thrown: the
\* summary request, and the catch around both
ContentEnd(lmOk) ==
    /\ pc = "chat"
    /\ turn.phase = "content"
    /\ Idle
    /\ turn' = IF returned[Len(issued)].kind = "throw"
               THEN Answer("no content", turn.lm)
               ELSE Answer(IF lmOk THEN "summary" ELSE "no content", turn.lm + 1)
    /\ OrchestratorFrame

\* The chat loop over the client wired to the server, with stdout delivered
\* in whole lines and a subprocess that answers a request while the client
\* waits for it or not at all, with the server's response or, for a tool
\* call, with a JSON-RPC error
AwaitingLatest == issued # <<>> /\ calls[Len(issued)] = <<>> /\ wire = <<>>
ErrorAnswers ==
    {ResponseLine(i, ErrorBody(-32603, "Internal error")) : i \in {requestId} \ {0, 1}}
NextTurn ==
    \/ StartChat
    \/ Initialize
    \/ \E message \in Messages, proposed \in Proposals, lmOk \in BOOLEAN :
           AskQuestion(message, proposed, lmOk)
    \/ LoopCall
    \/ LoopArgsError
    \/ \E lmOk \in BOOLEAN : LoopEnd(lmOk)
    \/ \E lmOk \in BOOLEAN : ContentEnd(lmOk)
    \/ wire # <<>> /\ Deliver(Len(wire))
    \/ \E n \in Calls : Timeout(n)
    \/ \E prov \in {"ok", "fail"} : AwaitingLatest /\ ServerRespond(Len(stdin), prov)
    \/ \E line \in ErrorAnswers : AwaitingLatest /\ ChildNoise(line)

SpecTurn == Init /\ [][NextTurn]_vars

\* ------------------------------------------------------------ properties
Issued == 1..Len(issued)
IsPending(n) == issued[n] \in DOMAIN pendingRequests /\ pendingRequests[issued[n]] = n
ByTimeout(o) == o.body.kind = "timeout"

\* C1: every call's promise callbacks are invoked at most once, and once the
\* pending entry of a call is gone no later step (a response with its id
\* included) settles the call again or puts an entry for its id back.
C1_AtMostOnce ==
    [][\A n \in Issued :
          /\ Len(calls'[n]) <= 1
          /\ issued[n] \notin DOMAIN pendingRequests
                => calls'[n] = calls[n] /\ issued[n] \notin DOMAIN pendingRequests']_vars

\* C1 witness: a call was settled by a response, a later record with its id
\* was parsed and found no entry, and another call had been rejected by its
\* timer.
C1_Witness ==
    \E n \in Issued, m \in Issued :
        /\ dropped = issued[n] /\ Len(calls[n]) = 1 /\ ~ByTimeout(calls[n][1])
        /\ Len(calls[m]) = 1 /\ ByTimeout(calls[m][1])

\* The chunk a step delivers: the bytes it takes off the wire
Delivered == SubSeq(wire, 1, Len(wire) - Len(wire'))

\* C2: when a chunk completes a record in the delivered stdout stream,
\* wherever the chunk boundaries fell inside it, the pending call with the
\* id of that record is settled by the step that delivers the chunk.
C2_Reassembly ==
    [][\A n \in Issued :
          (/\ Len(wire') < Len(wire)
           /\ IsPending(n)
           /\ HasRecord(ClosedLines(rxTail, Delivered), issued[n]))
              => calls'[n] # <<>>]_vars

\* C3: the exit handler rejects every call that is pending when it runs and
\* leaves no pending entry.
C3_RejectOnExit ==
    [][(~evDone /\ evDone' /\ child \in {"exit0", "exit1"}) =>
          \A n \in Issued :
              issued[n] \in DOMAIN pendingRequests =>
                  /\ issued[n] \notin DOMAIN pendingRequests'
                  /\ calls'[n] # <<>>
                  /\ calls'[n][1].how = "reject"]_vars

\* C4: the ids allocated are 1, 2, 3, ... in issuance order (pairwise
\* distinct, strictly increasing, the first one 1), and the counter changes
\* only by an allocation and never goes down.
C4_IdsIncrease ==
    [][/\ requestId' >= requestId
       /\ \A a \in 1..Len(issued'), b \in 1..Len(issued') :
              a < b => issued'[a] < issued'[b]
       /\ issued' # <<>> => issued'[1] = 1
       /\ requestId' # requestId =>
              issued' = Append(issued, requestId') /\ requestId' > requestId]_vars

\* C4 witness: all ids are allocated, after a timeout, a response and a
\* subprocess exit have happened.
C4_Witness ==
    /\ Len(issued) = MaxId
    /\ \E n \in Issued : timers[n] = "fired"
    /\ \E n \in Issued : timers[n] = "cleared"
    /\ evDone

\* C5: when the timer of a call fires, the entry of its id is removed, the
\* call is rejected with the timeout error, and the entries of all other ids
\* stay as they are; the state of the subprocess plays no part.
C5_Timeout ==
    [][\A n \in Issued :
          (timers[n] = "armed" /\ timers'[n] = "fired") =>
              /\ issued[n] \notin DOMAIN pendingRequests'
              /\ calls'[n] = <<[how |-> "reject", body |-> TimeoutError]>>
              /\ \A k \in DOMAIN pendingRequests \ {issued[n]} :
                     k \in DOMAIN pendingRequests' /\ pendingRequests'[k] = pendingRequests[k]
              /\ DOMAIN pendingRequests' \subseteq DOMAIN pendingRequests]_vars

\* C5 witness: a call has timed out after the subprocess exited with code 0
\* (no response of the server was ever written for it) while another call
\* is still pending.
C5_Witness ==
    \E n \in Issued, m \in Issued :
        /\ timers[n] = "fired" /\ child = "exit0" /\ srvResp[n] = NoBody
        /\ m # n /\ IsPending(m)

\* C6: at most one initialize request is written, the first request written
\* is the initialize request, and a tools/call request is written only after
\* the initialize call has resolved.
C6_Handshake ==
    /\ Cardinality({k \in 1..Len(stdin) : stdin[k].method = "initialize"}) <= 1
    /\ stdin # <<>> => stdin[1].method = "initialize"
    /\ pc = "chat" => Len(stdin) >= 1
    /\ (\E k \in 1..Len(stdin) : stdin[k].method = "tools/call")
          => calls[1] # <<>> /\ calls[1][1].how = "resolve"

\* C6 witness: a tools/call request has been written.
C6_Witness == \E k \in 1..Len(stdin) : stdin[k].method = "tools/call"

\* C7: a step that delivers a chunk settles a call only with the body of a
\* record of that chunk that carries the id of the call, rejecting for an
\* error body and resolving otherwise, whatever the order of the responses
\* and however many of them the chunk holds.
C7_Correlation ==
    [][\A n \in Issued :
          (Len(wire') < Len(wire) /\ calls'[n] # calls[n]) =>
              LET o == calls'[n][Len(calls'[n])]
              IN  /\ Len(calls'[n]) = Len(calls[n]) + 1
                  /\ \E j \in 1..(Len(Delivered) - 1) :
                         /\ Delivered[j] = OpenTok(issued[n])
                         /\ Delivered[j + 1] = RestTok(o.body)
                  /\ o.how = IF o.body.kind = "error" THEN "reject" ELSE "resolve"]_vars

\* C7 witness: two tool calls were pending together and the later one has
\* been settled by its response while the earlier one still waits.
C7_Witness ==
    \E n \in Issued, m \in Issued :
        /\ n < m /\ IsPending(n) /\ calls[n] = <<>>
        /\ Len(calls[m]) = 1 /\ calls[m][1].body = srvResp[m] /\ srvResp[m] # NoBody

Answered(k) == srvResp[k] # NoBody
IsToolCall(k) == stdin[k].method = "tools/call"
UnknownName(k) == IsToolCall(k) /\ stdin[k].name \notin Range(RegisteredTools)

\* C8: the server answers a tools/call with an unregistered name by a result
\* with isError: true whose text names the tool; the server keeps running
\* and a later call of a registered tool with an arguments object is answered
\* by an ordinary result.
C8_UnknownTool ==
    \A k \in 1..Len(stdin) :
        (UnknownName(k) /\ Answered(k)) =>
            /\ srvResp[k] = ResultBody(ErrorJson("Unknown tool: " \o stdin[k].name), TRUE)
            /\ child = "running"
            /\ \A j \in (k + 1)..Len(stdin) :
                   (IsToolCall(j) /\ ~UnknownName(j) /\ stdin[j].args.present /\ Answered(j))
                       => srvResp[j].kind = "result" /\ ~srvResp[j].isError

\* C8 witness: an unknown tool was answered and a later search was answered
\* with pages.
C8_Witness ==
    \E k \in 1..Len(stdin), j \in 1..Len(stdin) :
        /\ k < j /\ UnknownName(k) /\ Answered(k)
        /\ stdin[j].name = "search_notion" /\ srvResp[j] = ResultBody("[pages]", FALSE)

\* C9 as claimed: the response to a tools/call with an unregistered name is
\* an error record, and the call that receives it is rejected.
C9_RpcError ==
    \A n \in 1..Len(stdin) :
        (UnknownName(n) /\ Answered(n)) =>
            /\ srvResp[n].kind = "error"
            /\ \A j \in 1..Len(calls[n]) :
                   calls[n][j].body = srvResp[n] => calls[n][j].how = "reject"

\* C9 as amended: the response to a tools/call with an unregistered name is
\* a result record with isError: true, and the call that receives it is
\* resolved with that result.
C9_ErrorFlagResolves ==
    \A n \in 1..Len(stdin) :
        (UnknownName(n) /\ Answered(n)) =>
            /\ srvResp[n].kind = "result" /\ srvResp[n].isError
            /\ \A j \in 1..Len(calls[n]) :
                   calls[n][j].body = srvResp[n] => calls[n][j].how = "resolve"

\* C9 witness: the call of an unknown tool was resolved with the server's
\* error-flagged result.
C9_Witness ==
    \E n \in 1..Len(stdin) :
        /\ UnknownName(n) /\ Answered(n) /\ srvResp[n].isError
        /\ calls[n] = <<[how |-> "resolve", body |-> srvResp[n]]>>

\* C10: every answered tools/call request got a result record (the handler
\* returned, it did not throw), and when the dispatch failed (unregistered
\* name, or no arguments object to read from) that result carries
\* isError: true and a message.
C10_Containment ==
    \A k \in 1..Len(stdin) :
        (IsToolCall(k) /\ Answered(k)) =>
            /\ srvResp[k].kind = "result"
            /\ (UnknownName(k) \/ ~stdin[k].args.present)
                  => srvResp[k].isError /\ srvResp[k].text # ""

\* C10 witness: a registered tool called without an arguments object was
\* answered with an error-flagged result.
C10_Witness ==
    \E k \in 1..Len(stdin) :
        /\ IsToolCall(k) /\ ~UnknownName(k) /\ ~stdin[k].args.present
        /\ Answered(k) /\ srvResp[k].isError

\* The k-th request is a call of a registered tool with an arguments object
Served(k) == IsToolCall(k) /\ ~UnknownName(k) /\ stdin[k].args.present
ProviderFailed(k) == \E i \in 1..Len(provReq[k]) : ~provReq[k][i].ok
FirstFailed(k) == provReq[k] # <<>> /\ ~provReq[k][1].ok
\* The response to the k-th request is the only thing on the server's stdout:
\* it was written after every other response had been read.
LastWritten(k) == Answered(k) /\ wire = ResponseLine(stdin[k].id, srvResp[k])

\* C11 as stated: whenever a provider request fails inside a tool call, the
\* response is an ordinary result record whose text is the empty list for
\* the four list and search tools and the error text for get_page_content;
\* the server keeps running and answers every call whose provider requests
\* succeed with its ordinary result.
C11_ProviderContainment ==
    /\ child = "running"
    /\ \A k \in 1..Len(stdin) :
          /\ (Answered(k) /\ ProviderFailed(k)) =>
                srvResp[k] = ResultBody(IF stdin[k].name = "get_page_content"
                                        THEN "Error retrieving content" ELSE "[]", FALSE)
          /\ (Answered(k) /\ Served(k) /\ ~ProviderFailed(k)) =>
                srvResp[k] \in {ResultBody("[pages]", FALSE), ResultBody("content", FALSE),
                                ResultBody("[pages by created_time]", FALSE)}

\* C11 amended: the same, except that search_notion answers with the pages
\* found, each with the placeholder 'Preview unavailable', when its search
\* succeeded and only a preview request failed.
C11_ProviderContainmentPreview ==
    /\ child = "running"
    /\ \A k \in 1..Len(stdin) :
          /\ (Answered(k) /\ FirstFailed(k)) =>
                srvResp[k] = ResultBody(IF stdin[k].name = "get_page_content"
                                        THEN "Error retrieving content" ELSE "[]", FALSE)
          /\ (Answered(k) /\ ProviderFailed(k) /\ ~FirstFailed(k)) =>
                /\ stdin[k].name = "search_notion"
                /\ srvResp[k] = ResultBody("[pages:Preview unavailable]", FALSE)
          /\ (Answered(k) /\ Served(k) /\ ~ProviderFailed(k)) =>
                srvResp[k] \in {ResultBody("[pages]", FALSE), ResultBody("content", FALSE),
                                ResultBody("[pages by created_time]", FALSE)}

\* C11 witness: a provider failure was answered with the degraded result and
\* read by the peer, and a call made after it got its ordinary result.
C11_Witness ==
    \E k \in 1..Len(stdin), j \in 1..Len(stdin) :
        /\ Answered(k) /\ FirstFailed(k) /\ srvResp[k].text = "[]"
        /\ j > k /\ LastWritten(j) /\ Served(j) /\ ~ProviderFailed(j)

\* C12: every provider search issued for search_notion, list_recent_pages,
\* get_page_titles_only or list_all_pages asks for at most 100 pages, whatever
\* number the limit argument is; search_notion with limit 500 asks for 100,
\* and a limit below 100 is passed on as it is.
C12_Clamp ==
    \A k \in 1..Len(stdin) :
        (Answered(k) /\ Served(k) /\ stdin[k].name # "get_page_content") =>
            /\ provReq[k] # <<>>
            /\ \A i \in 1..Len(provReq[k]) : provReq[k][i].pageSize <= 100
            /\ (stdin[k].name = "search_notion" /\ stdin[k].args.limit = 500) =>
                   provReq[k][1].pageSize = 100
            /\ stdin[k].args.limit \in 1..100 =>
                   provReq[k][1].pageSize = stdin[k].args.limit

\* C12 witness: search_notion was called with limit 500 and answered.
C12_Witness ==
    \E k \in 1..Len(stdin) :
        /\ Answered(k) /\ stdin[k].name = "search_notion" /\ stdin[k].args = Args(500)
        /\ provReq[k][1].pageSize = 100

\* C13: the handler of the child's error event, and the handler of its exit
\* event when the exit code is not 0, terminate the client with exit status
\* 1; a client that has terminated writes no request and stays terminated.
C13_FatalChild ==
    [][/\ (~evDone /\ evDone' /\ child \in {"exit1", "error"}) =>
              (pc' = "exited" /\ exitCode' = 1)
       /\ pc = "exited" => (pc' = "exited" /\ exitCode' = exitCode /\ stdin' = stdin)]_vars

\* C13 witness: the child exited with a code other than 0 after a tools/call
\* request had been written, and the client has terminated with status 1.
C13_Witness ==
    /\ child = "exit1" /\ evDone /\ pc = "exited" /\ exitCode = 1
    /\ \E k \in 1..Len(stdin) : stdin[k].method = "tools/call"

\* C14: once the initialize call has been rejected, by an error response or
\* by its timer, the client has terminated with exit status 1, it is not in
\* the chat loop, and the initialize request is the only request written.
C14_HandshakeFatal ==
    (calls[1] # <<>> /\ calls[1][1].how = "reject") =>
        /\ pc = "exited" /\ exitCode = 1
        /\ Len(stdin) = 1 /\ stdin[1].method = "initialize"

\* C14 witness: the initialize call was rejected by an error response.
C14_Witness ==
    /\ calls[1] # <<>> /\ calls[1][1].how = "reject"
    /\ calls[1][1].body.kind = "error"

\* C15: every call that has been issued is eventually resolved or rejected,
\* unless the client terminates first, whatever the subprocess does.
C15_EventuallySettled ==
    \A n \in Calls :
        (n \in Issued) ~> (calls[n] # <<>> \/ pc = "exited")

\* C15 witness: a tool call was rejected by its timer although the child was
\* running all along; the child wrote only a log line, which the client has
\* read.
C15_Witness ==
    \E n \in Issued :
        /\ n > 1 /\ timers[n] = "fired" /\ calls[n] # <<>>
        /\ child = "running" /\ srvResp[n] = NoBody /\ noise > 0 /\ wire = <<>>

\* The lines handleMCPResponse finds in the chunk a step delivers
DeliveredLines == NonBlank(SplitNL(Delivered, <<>>))

\* C16: a step that delivers a chunk settles a call, or removes its entry,
\* only for a line of the chunk that is a well-formed response with the id
\* of the call (a record with a result or an error), and with the result or
\* error of that line; a line that is not well-formed has no effect, and a
\* well-formed line next to it still settles its pending call.
C16_MalformedDiscarded ==
    [][Len(wire') < Len(wire) =>
          \A n \in Issued :
              LET WellFormed(j) ==
                      /\ JSONparse(DeliveredLines[j]).ok
                      /\ JSONparse(DeliveredLines[j]).id = issued[n]
                      /\ JSONparse(DeliveredLines[j]).body.kind \in {"result", "error"}
              IN  /\ (calls'[n] # calls[n] \/ (IsPending(n) /\ issued[n] \notin DOMAIN pendingRequests'))
                        => \E j \in 1..Len(DeliveredLines) :
                               /\ WellFormed(j)
                               /\ calls'[n] = Append(calls[n], Settlement(JSONparse(DeliveredLines[j]).body))
                  /\ (IsPending(n) /\ \E j \in 1..Len(DeliveredLines) : WellFormed(j))
                        => calls'[n] # <<>>]_vars

\* C17: a step that delivers a chunk leaves the id counter alone, adds no
\* pending entry, and leaves alone the entry, the timer and the promise of
\* every call whose id is not the id of a record parsed in that chunk; so a
\* record whose id matches no pending entry changes nothing.
C17_UnknownId ==
    [][Len(wire') < Len(wire) =>
          /\ requestId' = requestId
          /\ DOMAIN pendingRequests' \subseteq DOMAIN pendingRequests
          /\ \A id \in DOMAIN pendingRequests :
                 ~HasRecord(DeliveredLines, id) =>
                     (id \in DOMAIN pendingRequests' /\ pendingRequests'[id] = pendingRequests[id])
          /\ \A n \in Issued :
                 (~IsPending(n) \/ ~HasRecord(DeliveredLines, issued[n])) =>
                     (timers'[n] = timers[n] /\ calls'[n] = calls[n])]_vars

\* C17 witness: a record was parsed whose id has no pending entry because its
\* call had timed out, while another call is pending with its timer armed.
C17_Witness ==
    \E n \in Issued, m \in Issued :
        /\ dropped = issued[m] /\ timers[m] = "fired"
        /\ IsPending(n) /\ timers[n] = "armed"

\* C18: every pending id is an id already allocated, at most the counter,
\* and its entry belongs to the call that carries the id; every call whose
\* timer is armed still has its own entry; the id of a request being written
\* has no entry at the moment its entry is inserted.
C18_PendingMap ==
    [][/\ \A id \in DOMAIN pendingRequests' :
              /\ id \in 1..requestId'
              /\ pendingRequests'[id] \in 1..Len(issued')
              /\ issued'[pendingRequests'[id]] = id
       /\ \A n \in 1..Len(issued') :
              timers'[n] = "armed" =>
                  (issued'[n] \in DOMAIN pendingRequests' /\ pendingRequests'[issued'[n]] = n)
       /\ Len(stdin') > Len(stdin) =>
              stdin'[Len(stdin')].id \notin DOMAIN pendingRequests]_vars

\* C18 witness: two calls are pending together.
C18_Witness ==
    \E n \in Issued, m \in Issued : n # m /\ IsPending(n) /\ IsPending(m)

\* C19: every answer to tools/list is the same catalog, the five tools in
\* the order search_notion, list_recent_pages, get_page_titles_only,
\* get_page_content, list_all_pages (each descriptor a literal of the
\* handler), whatever requests came before it, and no provider request is
\* made for it.
C19_DiscoveryStable ==
    \A k \in 1..Len(stdin) :
        (stdin[k].method = "tools/list" /\ Answered(k)) =>
            /\ srvResp[k] = ResultBody("search_notion,list_recent_pages," \o
                                       "get_page_titles_only,get_page_content," \o
                                       "list_all_pages", FALSE)
            /\ provReq[k] = <<>>

\* C19 witness: a tools/list request was answered after a failing tools/call
\* had been answered and read.
C19_Witness ==
    \E k \in 1..Len(stdin), j \in 1..Len(stdin) :
        /\ k < j /\ IsToolCall(k) /\ Answered(k) /\ srvResp[k].isError
        /\ stdin[j].method = "tools/list" /\ LastWritten(j)

\* The client can write a request; some call can be settled
CanSend ==
    ENABLED (Initialize \/ \E name \in CallNames, args \in CallArgs : CallMCPTool(name, args))
CanSettle ==
    ENABLED ((\E n \in 1..Len(wire) : Deliver(n)) \/ (\E n \in Calls : Timeout(n)))

\* C20: a step in which the client handles stderr data changes nothing but
\* the console: the pending map, the timers, the id counter, the requests
\* written, the settlements of the callers and the position of the client
\* are what they were, and whether a request can be written or a call
\* settled is what it was; so the rest of a run is the same with and without
\* the step, whatever the data says and whenever it arrives.
C20_StderrInert ==
    [][diag' # diag =>
          /\ UNCHANGED <<requestId, pendingRequests, timers, calls, issued, stdin, pc,
                         exitCode, mcpProcess, wire, rxTail>>
          /\ CanSend' <=> CanSend
          /\ CanSettle' <=> CanSettle]_vars

\* C20 witness: the server's start-up message was handled while a call was
\* pending, and the call was settled by its response afterwards.
C20_Witness ==
    /\ diag # <<>> /\ diag[1] = "log"
    /\ \E n \in Issued : n > 1 /\ Len(calls[n]) = 1 /\ calls[n][1].how = "resolve"

\* The runs of the callbacks of a step, statement by statement, recomputed
\* from the state the step starts in
IsDeliver == Len(wire') < Len(wire)
IsSend == Len(stdin') > Len(stdin)
TimerFires(n) == timers[n] = "armed" /\ timers'[n] = "fired"
HandlerRun ==
    handleMCPResponse([pending |-> pendingRequests, timers |-> timers,
                       calls |-> calls, dropped |-> 0, ops |-> <<>>], Delivered)
TimerRun(n) ==
    TimerCallback([pending |-> pendingRequests, timers |-> timers,
                   calls |-> calls, dropped |-> 0, ops |-> <<>>], n)
SendRun ==
    SendSteps([pending |-> pendingRequests, timers |-> timers,
               stdin |-> stdin, ops |-> <<>>], Len(issued'), stdin'[Len(stdin')])
DeletedFirst(ops) ==
    \A j \in 1..Len(ops) :
        ops[j].op \in {"resolve", "reject"} =>
            /\ ~ops[j].entry
            /\ \E i \in 1..(j - 1) : ops[i].op = "delete" /\ ops[i].call = ops[j].call

\* C22: on the response path and on the timeout path alike, the statement
\* that invokes the resolve or reject of a call runs after the statement that
\* deletes the entry of that call, and finds no entry for its id; so the step
\* that settles a call leaves no entry for its id in the map.
C22_DeleteBeforeCallback ==
    [][/\ IsDeliver =>
              /\ HandlerRun.pending = pendingRequests' /\ HandlerRun.calls = calls'
              /\ DeletedFirst(HandlerRun.ops)
       /\ \A n \in Issued :
              TimerFires(n) =>
                  /\ TimerRun(n).pending = pendingRequests' /\ TimerRun(n).calls = calls'
                  /\ DeletedFirst(TimerRun(n).ops)
       /\ \A n \in Issued :
              calls'[n] # calls[n] => issued[n] \notin DOMAIN pendingRequests']_vars

\* C22 witness: one call has been settled by its response and another by its
\* timer, and neither id has an entry.
C22_Witness ==
    \E n \in Issued, m \in Issued :
        /\ Len(calls[n]) = 1 /\ ~ByTimeout(calls[n][1]) /\ calls[n][1].body = srvResp[n]
        /\ srvResp[n] # NoBody
        /\ Len(calls[m]) = 1 /\ ByTimeout(calls[m][1])
        /\ {issued[n], issued[m]} \cap DOMAIN pendingRequests = {}

\* C23: when a response fulfills a pending entry, the statement that deletes
\* the entry runs after the timer of the call was cancelled, i.e. it finds
\* the timer cleared.
C23_CancelBeforeDelete ==
    [][IsDeliver =>
          \A j \in 1..Len(HandlerRun.ops) :
              HandlerRun.ops[j].op = "delete" => HandlerRun.ops[j].timer = "cleared"]_vars

ArmedIds == {issued[n] : n \in {m \in Issued : timers[m] = "armed"}}

\* C24: after every step the ids whose timer is armed are the ids in the
\* pending map; the step that writes a request arms the timer of that call,
\* which was never armed before, and no timer is armed a second time; the
\* step in which a response settles a call leaves its timer cleared; and a
\* timer fires only for a call that is not settled.
C24_TimerPending ==
    [][/\ ArmedIds' = DOMAIN pendingRequests'
       /\ IsSend => (timers[Len(issued')] = "none" /\ timers'[Len(issued')] = "armed")
       /\ \A n \in Calls :
              /\ (timers[n] # "none" /\ timers'[n] # timers[n]) => timers'[n] # "armed"
              /\ (timers'[n] = "armed" /\ timers[n] # "armed") => (IsSend /\ n = Len(issued'))
              /\ (IsDeliver /\ calls'[n] # calls[n]) => timers'[n] = "cleared"
              /\ timers[n] = "cleared" => timers'[n] = "cleared"
              /\ (timers'[n] = "fired" /\ timers[n] # "fired") => calls[n] = <<>>]_vars

\* C24 witness: one call was settled by its response and its timer is
\* cleared, the timer of another has fired, and a third is pending with its
\* timer armed.
C24_Witness ==
    \E n \in Issued, m \in Issued, l \in Issued :
        /\ timers[n] = "cleared" /\ timers[m] = "fired"
        /\ timers[l] = "armed" /\ IsPending(l)

\* C25: when a record of the delivered chunk settles a call, that record
\* carries the id of the call; the call is rejected exactly when the record
\* has an error, with that error (its message), and otherwise resolved with
\* the result of the record; the call is settled once, never resolved and
\* rejected both.
C25_SettlementSelection ==
    [][(IsDeliver /\ calls' # calls) =>
          LET lines == DeliveredLines
          IN  \A n \in Issued :
                  calls'[n] # calls[n] =>
                      /\ calls[n] = <<>> /\ Len(calls'[n]) = 1
                      /\ \E j \in 1..Len(lines) :
                             LET r == JSONparse(lines[j])
                             IN  /\ r.ok /\ r.id = issued[n]
                                 /\ calls'[n][1].body = r.body
                                 /\ (calls'[n][1].how = "reject") = (r.body.kind = "error")
                                 /\ (calls'[n][1].how = "resolve") = (r.body.kind # "error")]_vars

\* C25 witness: one call was rejected by a record with an error and another
\* resolved by a record with a result.
C25_Witness ==
    \E n \in Issued, m \in Issued :
        /\ Len(calls[n]) = 1 /\ calls[n][1].how = "reject" /\ calls[n][1].body.kind = "error"
        /\ Len(calls[m]) = 1 /\ calls[m][1].how = "resolve" /\ calls[m][1].body.kind = "result"

\* C26: the input of the subprocess holds one record per request sent, in
\* the order the ids were allocated: the k-th record carries the k-th id,
\* ids grow strictly along the stream, and a step adds at most one record,
\* the one with the id just allocated.
C26_WriteOrder ==
    [][/\ Len(stdin') = Len(issued')
       /\ \A k \in 1..Len(stdin') : stdin'[k].id = issued'[k]
       /\ \A k \in 1..Len(stdin'), l \in 1..Len(stdin') :
              k < l => stdin'[k].id < stdin'[l].id
       /\ \/ stdin' = stdin
          \/ /\ Len(stdin') = Len(stdin) + 1
             /\ SubSeq(stdin', 1, Len(stdin)) = stdin
             /\ stdin'[Len(stdin')].id = requestId' /\ requestId' > requestId]_vars

\* C26 witness: three requests were written while two of them were pending
\* together.
C26_Witness ==
    /\ Len(stdin) >= 3
    /\ \E n \in Issued, m \in Issued : n < m /\ timers[n] = "armed" /\ timers[m] = "armed"

\* C30: in the step that sends a request, the statement that writes the line
\* finds the timer of the call armed and its entry in the map; so every
\* request the subprocess can read has an entry or had one that a settlement
\* removed, and a chunk settles a call only if its entry exists when the
\* chunk arrives.
C30_InsertBeforeWrite ==
    [][/\ IsSend =>
              /\ SendRun.pending = pendingRequests' /\ SendRun.stdin = stdin'
              /\ SendRun.timers = timers'
              /\ \A j \in 1..Len(SendRun.ops) :
                     SendRun.ops[j].op = "write" =>
                         (SendRun.ops[j].entry /\ SendRun.ops[j].timer = "armed")
       /\ \A k \in 1..Len(stdin') :
              \/ stdin'[k].id \in DOMAIN pendingRequests'
              \/ \E n \in 1..Len(issued') : issued'[n] = stdin'[k].id /\ calls'[n] # <<>>
       /\ \A n \in Issued :
              (IsDeliver /\ calls'[n] # calls[n]) => IsPending(n)]_vars

\* C30 witness: the response of the server to a tools/call request has
\* settled the call that sent it.
C30_Witness ==
    \E n \in Issued :
        /\ stdin[n].method = "tools/call" /\ srvResp[n] # NoBody
        /\ Len(calls[n]) = 1 /\ calls[n][1].body = srvResp[n] /\ timers[n] = "cleared"

ToolNames(tools) == {tools[i].name : i \in 1..Len(tools)}

\* C21: the tools the client advertises to the language model are the tools
\* of the server's registry: the same five names and, for each name, the
\* same properties with the same types, defaults and enums and the same
\* required list; so a tools/call for any advertised name is dispatched to a
\* tool of the server and never answered as an unknown tool.
C21_SchemaAgreement ==
    /\ Range(ClientTools) = Range(ServerTools)
    /\ Len(ClientTools) = 5 /\ Cardinality(ToolNames(ClientTools)) = 5
    /\ ToolNames(ClientTools) = Range(RegisteredTools)
    /\ \A k \in 1..Len(stdin) :
           (IsToolCall(k) /\ Answered(k) /\ stdin[k].name \in ToolNames(ClientTools)) =>
               srvResp[k].text # ErrorJson("Unknown tool: " \o stdin[k].name)

\* C21 witness: the server has answered a tools/call for list_all_pages and
\* one for get_page_content, the two tools the two lists hold in a different
\* order, with an ordinary result.
C21_Witness ==
    \E k \in 1..Len(stdin), l \in 1..Len(stdin) :
        /\ IsToolCall(k) /\ stdin[k].name = "list_all_pages" /\ stdin[k].args.present
        /\ IsToolCall(l) /\ stdin[l].name = "get_page_content" /\ stdin[l].args.present
        /\ Answered(k) /\ Answered(l) /\ ~srvResp[k].isError /\ ~srvResp[l].isError

\* C28: a tools/call whose arguments object has no limit asks the provider
\* for 10 pages for search_notion, list_recent_pages and get_page_titles_only
\* and for 20 for list_all_pages; list_recent_pages without a sort returns
\* the pages in the provider's last_edited_time order, not sorted again; a
\* limit from 1 to 100 is the page size the provider is asked for.
C28_ArgumentDefaults ==
    \A k \in 1..Len(stdin) :
        (Answered(k) /\ Served(k) /\ stdin[k].name # "get_page_content") =>
            /\ provReq[k] # <<>>
            /\ (stdin[k].args.limit = 0 /\ stdin[k].name = "list_all_pages") =>
                   provReq[k][1].pageSize = 20
            /\ (stdin[k].args.limit = 0 /\ stdin[k].name # "list_all_pages") =>
                   provReq[k][1].pageSize = 10
            /\ (stdin[k].name = "list_recent_pages" /\ stdin[k].args.sort = "") =>
                   srvResp[k].text \in {"[pages]", "[]"}
            /\ (stdin[k].name = "list_recent_pages" /\ stdin[k].args.sort = "created_time"
                   /\ ~ProviderFailed(k)) =>
                   srvResp[k].text = "[pages by created_time]"
            /\ (stdin[k].args.limit >= 1 /\ stdin[k].args.limit <= MaxPageSize) =>
                   provReq[k][1] = ProviderRequest(stdin[k].args.limit, ~FirstFailed(k))

\* C28 witness: list_all_pages and list_recent_pages were called with an
\* arguments object that has neither limit nor sort, and both were answered
\* from the provider's pages.
C28_Witness ==
    \E k \in 1..Len(stdin), l \in 1..Len(stdin) :
        /\ Answered(k) /\ stdin[k].name = "list_all_pages" /\ stdin[k].args = Args(0)
        /\ provReq[k][1].pageSize = 20
        /\ Answered(l) /\ stdin[l].name = "list_recent_pages" /\ stdin[l].args = Args(0)
        /\ provReq[l][1].pageSize = 10 /\ srvResp[l].text = "[pages]"

\* A page has a non-empty title: it is an object whose properties hold a
\* value of type title whose title array starts with an item with a
\* non-empty plain_text
HasTitleText(page) ==
    /\ page.t = "object" /\ Has(page, "properties")
    /\ \E i \in 1..Len(Entries(Get(page, "properties"))) :
           LET value == Entries(Get(page, "properties"))[i]
           IN  /\ value.t = "object" /\ Has(value, "type") /\ Has(value, "title")
               /\ Get(value, "type").t = "string" /\ Get(value, "type").v = "title"
               /\ Get(value, "title").t = "array" /\ Len(Get(value, "title").v) > 0
               /\ Get(value, "title").v[1].t = "object"
               /\ Truthy(Get(Get(value, "title").v[1], "plain_text"))
\* A block has a rich_text or text array under the key its type names
HasTextArray(block) ==
    /\ block.t = "object" /\ Has(block, "type") /\ Get(block, "type").t = "string"
    /\ Has(block, Get(block, "type").v)
    /\ LET data == Get(block, Get(block, "type").v)
       IN  /\ data.t = "object"
           /\ \/ Has(data, "rich_text") /\ Get(data, "rich_text").t = "array"
              \/ Has(data, "text") /\ Get(data, "text").t = "array"

\* C29: a call of extractTitle or extractBlockText, whatever value it is
\* given, returns (raises nothing) and returns a string; extractTitle returns
\* 'Untitled' for a page without a non-empty title and extractBlockText
\* returns the empty string for a block without a rich_text or text array.
C29_TotalExtraction ==
    extraction.done =>
        /\ extraction.out.t = "string"
        /\ (extraction.fn = "extractTitle" /\ ~HasTitleText(extraction.input)) =>
               extraction.out.v = "Untitled"
        /\ (extraction.fn = "extractBlockText" /\ ~HasTextArray(extraction.input)) =>
               extraction.out.v = ""

\* C27: when a tools/call is resolved with a result, callMCPTool returns the
\* value JSON.parse gives for the first text when that text is JSON (for
\* get_page_titles_only with limit 3 answered by the server, the array of
\* title records), the text itself when it is not JSON (the content of
\* get_page_content), and the result as it is when it has no non-empty text.
C27_ResultDecoding ==
    \A n \in Issued :
        (/\ IsToolCall(n) /\ Len(calls[n]) = 1 /\ calls[n][1].how = "resolve"
         /\ calls[n][1].body.kind = "result") =>
            LET result == calls[n][1].body
                isJson == \E e \in JsonTexts : e[1] = result.text
            IN  /\ n \in DOMAIN returned
                /\ isJson =>
                       /\ returned[n].kind = "json"
                       /\ \E e \in JsonTexts : e[1] = result.text /\ returned[n].value = e[2]
                /\ (result.text # "" /\ ~isJson) =>
                       /\ returned[n].kind = "text" /\ returned[n].value.v = result.text
                /\ result.text = "" =>
                       /\ returned[n].kind = "result" /\ returned[n].value = result
                /\ (/\ stdin[n].name = "get_page_titles_only" /\ stdin[n].args = Args(3)
                    /\ result = srvResp[n] /\ ~ProviderFailed(n)) =>
                       /\ returned[n].kind = "json" /\ returned[n].value.t = "array"
                       /\ Len(returned[n].value.v) > 0
                       /\ Has(returned[n].value.v[1], "title")
                /\ (stdin[n].name = "get_page_content" /\ result = srvResp[n]) =>
                       returned[n].kind = "text"

\* C27 witness: get_page_titles_only with limit 3 has returned the parsed
\* array of title records and get_page_content the text of the page.
C27_Witness ==
    \E n \in Issued, m \in Issued :
        /\ {n, m} \subseteq DOMAIN returned
        /\ stdin[n].name = "get_page_titles_only" /\ calls[n] # <<>>
        /\ calls[n][1].body = srvResp[n]
        /\ returned[n].kind = "json" /\ returned[n].value.t = "array"
        /\ Len(returned[n].value.v) > 0
        /\ stdin[m].name = "get_page_content" /\ calls[m] # <<>>
        /\ returned[m].kind = "text" /\ returned[m].value.v = "content"

\* A call of callMCPTool has returned a result that has no text as it is
C27_WholeResult ==
    \E n \in Issued :
        /\ n \in DOMAIN returned
        /\ calls[n] # <<>> /\ calls[n][1].body = ResultBody("", FALSE)
        /\ returned[n].kind = "result"

\* C31: in the client as wired, a step that sends a request starts with
\* every earlier call settled and with an empty pending map, so the pending
\* map never holds more than one entry.
C31_SingleInFlight ==
    [][/\ IsSend => (pendingRequests = <<>> /\ \A n \in Issued : calls[n] # <<>>)
       /\ Cardinality(DOMAIN pendingRequests') <= 1]_vars

\* C31 witness: a tool call is pending alone, after the handshake was
\* settled and an earlier tool call was rejected by its timer.
C31_Witness ==
    \E n \in Issued, m \in Issued, l \in Issued :
        /\ n < m /\ m < l /\ IsToolCall(m) /\ IsToolCall(l)
        /\ calls[n] # <<>> /\ Len(calls[m]) = 1 /\ ByTimeout(calls[m][1])
        /\ IsPending(l) /\ DOMAIN pendingRequests = {issued[l]}

\* A record with this id is among the undelivered bytes
OnWire(id) == \E j \in 1..Len(wire) : wire[j] = OpenTok(id)

\* C32: the step in which the exit handler runs for exit code 0 changes
\* neither the pending map, the timers, the id counter, the process handle
\* nor the settlements, and the client keeps running; a request sent when
\* the subprocess has exited with code 0 is accepted like any other (timer
\* armed, entry inserted, line written, nothing rejected); once the
\* subprocess has exited nothing more is written to its stdout, no record
\* for the id of such a request exists, and a call without a record on the
\* wire is settled only by its timer.
C32_ExitZeroNotFatal ==
    [][/\ (~evDone /\ evDone' /\ child = "exit0") =>
              /\ pendingRequests' = pendingRequests /\ timers' = timers
              /\ requestId' = requestId /\ mcpProcess' = mcpProcess
              /\ calls' = calls /\ stdin' = stdin
              /\ pc' = pc /\ exitCode' = exitCode /\ pc' # "exited"
       /\ (requestId' # requestId /\ child = "exit0") =>
              /\ IsSend /\ mcpProcess = "spawned"
              /\ calls'[Len(issued')] = <<>> /\ timers'[Len(issued')] = "armed"
              /\ requestId' \in DOMAIN pendingRequests'
              /\ ~OnWire(requestId')
       /\ child = "exit0" =>
              /\ child' = "exit0"
              /\ Len(wire') <= Len(wire)
              /\ wire' = SubSeq(wire, Len(wire) - Len(wire') + 1, Len(wire))
              /\ \A n \in Issued :
                     (calls[n] = <<>> /\ calls'[n] # <<>> /\ ~OnWire(issued[n])) =>
                         ByTimeout(calls'[n][1])]_vars

\* C32 witness: the subprocess has exited with code 0 and its exit was
\* handled, the client is still in its chat loop with its process handle, a
\* tool call that got no answer was rejected by its timer, and the next tool
\* call can be sent.
C32_Witness ==
    /\ child = "exit0" /\ evDone /\ pc = "chat" /\ mcpProcess = "spawned"
    /\ \E n \in Issued :
           /\ IsToolCall(n) /\ srvResp[n] = NoBody
           /\ Len(calls[n]) = 1 /\ ByTimeout(calls[n][1])
    /\ ENABLED (\E name \in CallNames, args \in CallArgs : ToolCall(name, args))

\* A call the loop gets nothing from: it was rejected (callMCPTool threw), or
\* it returned an object with an error, or an empty array
Rejected(ret) == ret.kind = "throw"
ErrorShaped(ret) ==
    ret.kind = "json" /\ ret.value.t = "object" /\ Truthy(Get(ret.value, "error"))
NoItems(ret) == ret.kind = "json" /\ ret.value = Arr(<<>>)
\* The calls the tool loop of the question in progress has issued
LoopCalls == (Len(issued) - (turn.next - 1) + 1)..Len(issued)
IssuesNext ==
    /\ Len(stdin') = Len(stdin) + 1
    /\ stdin'[Len(stdin')].method = "tools/call"
    /\ stdin'[Len(stdin')].name = turn.calls[turn.next].name
    /\ turn'.phase = "loop" /\ turn'.calls = turn.calls /\ turn'.next = turn.next + 1
TypeOK ==
    /\ requestId \in 0..MaxId
    /\ DOMAIN pendingRequests \subseteq Ids
    /\ pc \in {"new", "sleeping", "init", "chat", "exited"}

====
